---- MODULE Spec2Model ----
(***************************************************************************)
(* Model of geopy/geocoders/googlev3.py: the GoogleV3 geocoder client.     *)
(*                                                                         *)
(* Python values are tagged records [t |-> type, v |-> payload].  A string *)
(* is a sequence of tokens (words and single punctuation characters), so   *)
(* that strip, join, lower and quote_plus act on its contents.             *)
(***************************************************************************)
EXTENDS Integers, Sequences, FiniteSets, TLC

VARIABLES
    ctor,        \* the constructor call: its arguments and how it ended
    domain,      \* self.domain
    protocol,    \* self.protocol
    doc,         \* self.doc
    premier,     \* self.premier
    client_id,   \* self.client_id
    secret_key,  \* self.secret_key
    transport,   \* which responses the environment hands over: "stub" or "any"
    calls        \* per thread: the call in progress, its position and its locals

vars == <<ctor, domain, protocol, doc, premier, client_id, secret_key, transport, calls>>

config == <<domain, protocol, premier, client_id, secret_key>>

-----------------------------------------------------------------------------
(* Bounds *)

\* longest `results` array in a response body
MaxResults == 2

\* threads that share one client
Threads == {1, 2}

\* the thread of the single-caller specifications
MainThread == CHOOSE t \in Threads : \A u \in Threads : t <= u

-----------------------------------------------------------------------------
(* Python values *)

PyNone == [t |-> "None", v |-> <<>>]
PStr(tokens) == [t |-> "str", v |-> tokens]
S(word) == PStr(<<word>>)
PBool(b) == [t |-> "bool", v |-> b]
PNum(n) == [t |-> "num", v |-> n]
PFloat(repr) == [t |-> "float", v |-> repr]
PList(items) == [t |-> "list", v |-> items]
PTuple(items) == [t |-> "tuple", v |-> items]
PDict(map) == [t |-> "dict", v |-> map]
PPoint(lat, lng) == [t |-> "Point", v |-> [latitude |-> lat, longitude |-> lng]]

EmptyMap == [k \in {} |-> PyNone]

\* how a call ends
Return(value) == [kind |-> "return", value |-> value]
Raise(error) == [kind |-> "raise", value |-> error]
Pending == [kind |-> "pending", value |-> "none"]

Raised(r) == r.kind = "raise"
Returned(r) == r.kind = "return"

\* Python ==, the type looked at first
Eq(x, y) == x.t = y.t /\ x.v = y.v
IsNone(x) == x.t = "None"

\* the call raised `error`; the call returned `value`
Raises(r, error) == r.kind = "raise" /\ r.value = error
Returns(r, value) == r.kind = "return" /\ Eq(r.value, value)
SameOutcome(r, q) ==
    /\ r.kind = q.kind
    /\ IF r.kind = "return" THEN Eq(r.value, q.value) ELSE r.value = q.value

\* Python truth value, as `if x:` and `x and not y` take it
Truthy(x) ==
    CASE x.t = "None" -> FALSE
      [] x.t = "bool" -> x.v
      [] x.t = "num" -> x.v # 0
      [] x.t = "str" -> Len(x.v) > 0
      [] x.t = "list" -> Len(x.v) > 0
      [] x.t = "tuple" -> Len(x.v) > 0
      [] x.t = "dict" -> DOMAIN x.v # {}
      [] OTHER -> TRUE

\* dict with d[k] = v set
Put(map, k, value) ==
    [x \in (DOMAIN map) \cup {k} |-> IF x = k THEN value ELSE map[x]]

-----------------------------------------------------------------------------
(* String helpers *)

RECURSIVE LStrip(_, _)
LStrip(tokens, ch) ==
    IF tokens # <<>> /\ Head(tokens) = ch THEN LStrip(Tail(tokens), ch) ELSE tokens

RECURSIVE RStrip(_, _)
RStrip(tokens, ch) ==
    IF tokens # <<>> /\ tokens[Len(tokens)] = ch
    THEN RStrip(SubSeq(tokens, 1, Len(tokens) - 1), ch)
    ELSE tokens

\* s.strip(ch)
Strip(s, ch) == PStr(RStrip(LStrip(s.v, ch), ch))

\* str(b) of a bool
StrOfBool(b) == IF b.v THEN S("True") ELSE S("False")

LowerToken(tok) ==
    CASE tok = "True" -> "true"
      [] tok = "False" -> "false"
      [] OTHER -> tok

\* s.lower()
Lower(s) == PStr([i \in DOMAIN s.v |-> LowerToken(s.v[i])])

RECURSIVE JoinTokens(_, _)
JoinTokens(sep, items) ==
    IF items = <<>> THEN <<>>
    ELSE IF Len(items) = 1 THEN items[1].v
    ELSE items[1].v \o sep.v \o JoinTokens(sep, Tail(items))

\* sep.join(*args): str.join takes exactly one argument, an iterable of strings
StrJoin(sep, args) ==
    IF Len(args) # 1 THEN Raise("TypeError")
    ELSE IF args[1].t \notin {"list", "tuple"} THEN Raise("TypeError")
    ELSE IF \E i \in DOMAIN args[1].v : args[1].v[i].t # "str" THEN Raise("TypeError")
    ELSE Return(PStr(JoinTokens(sep, args[1].v)))

-----------------------------------------------------------------------------
(* Construction *)

Domains == {S("maps.googleapis.com"), PStr(<<"maps.google.co.uk", "/">>)}
Protocols == {S("http"), S("https"), S("ftp")}
ClientIds == {PyNone, PStr(<<>>), S("gme-acme")}
\* "c2VjcmV0" is URL-safe base64 of "secret"; "c2Vjc" has a broken length
SecretKeys == {PyNone, PStr(<<>>), S("c2VjcmV0"), S("c2Vjc")}

CtorArgs ==
    [domain : Domains, protocol : Protocols, client_id : ClientIds, secret_key : SecretKeys]

\* GoogleV3(): the defaults of __init__
DefaultArgs ==
    [domain |-> S("maps.googleapis.com"), protocol |-> S("http"),
     client_id |-> PyNone, secret_key |-> PyNone]

EmptyDoc == PDict(EmptyMap)

\* the fields a fresh object does not have yet
Unset == PyNone

\* __init__ without the second credential check (lines 48-49)
NewNoSecretCheck(a) ==
    IF a.protocol \notin {S("http"), S("https")} THEN Raise("ValueError")
    ELSE IF Truthy(a.client_id) /\ ~Truthy(a.secret_key) THEN Raise("ValueError")
    ELSE Return([domain |-> Strip(a.domain, "/"),
                 protocol |-> a.protocol,
                 doc |-> EmptyDoc,
                 premier |-> Truthy(a.client_id) /\ Truthy(a.secret_key),
                 client_id |-> IF Truthy(a.client_id) /\ Truthy(a.secret_key)
                               THEN a.client_id ELSE PyNone,
                 secret_key |-> IF Truthy(a.client_id) /\ Truthy(a.secret_key)
                                THEN a.secret_key ELSE PyNone])

\* __init__: the checks, then the fields
New(a) ==
    IF a.protocol \notin {S("http"), S("https")} THEN Raise("ValueError")
    ELSE IF Truthy(a.client_id) /\ ~Truthy(a.secret_key) THEN Raise("ValueError")
    ELSE IF Truthy(a.secret_key) /\ ~Truthy(a.client_id) THEN Raise("ValueError")
    ELSE Return([domain |-> Strip(a.domain, "/"),
                 protocol |-> a.protocol,
                 doc |-> EmptyDoc,
                 premier |-> Truthy(a.client_id) /\ Truthy(a.secret_key),
                 client_id |-> IF Truthy(a.client_id) /\ Truthy(a.secret_key)
                               THEN a.client_id ELSE PyNone,
                 secret_key |-> IF Truthy(a.client_id) /\ Truthy(a.secret_key)
                                THEN a.secret_key ELSE PyNone])

-----------------------------------------------------------------------------
(* URL building *)

\* the order in which urlencode walks the dict (one order per dict; any will do)
KeyOrder == <<"address", "bounds", "client", "language", "latlng", "region", "sensor">>

\* quote_plus of one token: words are safe, a space becomes "+", the rest %XX
QuoteToken(tok) ==
    CASE tok = " " -> "+"
      [] tok = "," -> "%2C"
      [] tok = "&" -> "%26"
      [] tok = "=" -> "%3D"
      [] tok = "|" -> "%7C"
      [] tok = "/" -> "%2F"
      [] OTHER -> tok

QuotePlus(s) == [i \in DOMAIN s.v |-> QuoteToken(s.v[i])]

RECURSIVE EncodePairs(_, _)
EncodePairs(map, keys) ==
    IF keys = <<>> THEN <<>>
    ELSE LET k == Head(keys)
             rest == EncodePairs(map, Tail(keys))
         IN  IF k \notin DOMAIN map THEN rest
             ELSE <<k, "=">> \o QuotePlus(map[k])
                      \o (IF rest = <<>> THEN <<>> ELSE <<"&">> \o rest)

\* urllib.urlencode(params)
Urlencode(params) == EncodePairs(params, KeyOrder)

UrlPath == "/maps/api/geocode/json?"

\* _get_url with the configured protocol in place of the literal 'http'
GetUrlConfiguredProtocol(self, params) ==
    PStr(self.protocol.v \o <<"://">> \o self.domain.v \o <<UrlPath>> \o Urlencode(params))

\* _get_url
GetUrl(self, params) ==
    PStr(<<"http", "://">> \o self.domain.v \o <<UrlPath>> \o Urlencode(params))

\* base64.urlsafe_b64decode: the bytes, or TypeError on text that is not base64
UrlsafeB64decode(s) ==
    CASE s = S("c2VjcmV0") -> Return(<<"s", "e", "c", "r", "e", "t">>)
      [] s = PStr(<<>>) -> Return(<<>>)
      [] OTHER -> Raise("TypeError")

\* hmac.new(key, msg, hashlib.sha1).digest(): a value fixed by the algorithm, key and message
HmacSha1Digest(key, msg) == [t |-> "hmac-sha1", v |-> <<key, msg>>]

\* base64.urlsafe_b64encode: the text of the bytes, spliced into the URL as one token
UrlsafeB64encode(bytes) == [t |-> "b64", v |-> bytes]

\* _get_signed_url: params gains 'client' (the caller's dict is changed), then the URL
GetSignedUrl(self, params) ==
    LET signed_params == Put(params, "client", self.client_id)
        secret == UrlsafeB64decode(self.secret_key)
        url_part == <<UrlPath>> \o Urlencode(signed_params)
    IN  IF Raised(secret) THEN secret
        ELSE Return([params |-> signed_params,
                     url |-> PStr(self.protocol.v \o <<"://">> \o self.domain.v \o url_part
                                  \o <<"&signature=",
                                       UrlsafeB64encode(HmacSha1Digest(secret.value, url_part))>>)])

\* the dispatch of geocode and reverse: plain unless premier
BuildUrlFor(self, params) ==
    IF ~self.premier
    THEN Return([params |-> params, url |-> GetUrl(self, params)])
    ELSE GetSignedUrl(self, params)

\* self.format_string % query, with the base class's default format '%s'
FormatString(query) == query

\* geocode's params with str(sensor) left as Python prints it
GeocodeParamsNoLower(a) ==
    LET base == [k \in {"address", "sensor"} |->
                    IF k = "address" THEN FormatString(a.query)
                    ELSE StrOfBool(a.sensor)]
        p1 == IF Truthy(a.bounds) THEN Put(base, "bounds", a.bounds) ELSE base
        p2 == IF Truthy(a.region) THEN Put(p1, "region", a.region) ELSE p1
    IN  IF Truthy(a.language) THEN Put(p2, "language", a.language) ELSE p2

\* geocode: the parameter map
GeocodeParams(a) ==
    LET base == [k \in {"address", "sensor"} |->
                    IF k = "address" THEN FormatString(a.query)
                    ELSE Lower(StrOfBool(a.sensor))]
        p1 == IF Truthy(a.bounds) THEN Put(base, "bounds", a.bounds) ELSE base
        p2 == IF Truthy(a.region) THEN Put(p1, "region", a.region) ELSE p1
    IN  IF Truthy(a.language) THEN Put(p2, "language", a.language) ELSE p2

\* _coerce_point_to_string
CoercePointToString(point) ==
    IF point.t = "Point"
    THEN StrJoin(S(","), <<point.v.latitude, point.v.longitude>>)
    ELSE IF point.t \in {"list", "tuple"}
    THEN StrJoin(S(","), <<point.v[1], point.v[2]>>)
    ELSE Return(point)

\* reverse: the parameter map, or the error of the coercion
ReverseParams(a) ==
    LET latlng == CoercePointToString(a.point)
    IN  IF Raised(latlng) THEN latlng
        ELSE LET base == [k \in {"latlng", "sensor"} |->
                             IF k = "latlng" THEN latlng.value
                             ELSE Lower(StrOfBool(a.sensor))]
             IN  Return(IF Truthy(a.language) THEN Put(base, "language", a.language)
                        ELSE base)

-----------------------------------------------------------------------------
(* JSON text and its decoding *)

JInvalid == [t |-> "invalid", v |-> <<>>]
JNull == [t |-> "null", v |-> <<>>]
JStr(s) == [t |-> "str", v |-> s]
JNum(n) == [t |-> "num", v |-> n]
JArr(items) == [t |-> "arr", v |-> items]
\* an object is its members in the order written, each <<key, value>>
JObj(members) == [t |-> "obj", v |-> members]

\* the last member with key k (json.loads keeps the last of duplicate keys)
LastMember(members, k) ==
    members[CHOOSE i \in DOMAIN members :
                /\ members[i][1] = k
                /\ \A j \in DOMAIN members : members[j][1] = k => j <= i][2]

RECURSIVE DecodeJson(_)
DecodeJson(j) ==
    CASE j.t = "obj" ->
            PDict([k \in {j.v[i][1] : i \in DOMAIN j.v} |-> DecodeJson(LastMember(j.v, k))])
      [] j.t = "arr" -> PList([i \in DOMAIN j.v |-> DecodeJson(j.v[i])])
      [] j.t = "str" -> S(j.v)
      [] j.t = "num" -> PNum(j.v)
      [] OTHER -> PyNone

\* json.loads(text)
JsonLoads(text) ==
    IF text.t = "invalid" THEN Raise("ValueError") ELSE Return(DecodeJson(text))

\* decode_page(page): the text of a file-like response
DecodePage(page) == page.v

\* parse_json lines 172-174: the value json.loads gives for the page
PageLoads(page) ==
    JsonLoads(IF page.t = "str" THEN page.v ELSE DecodePage(page))

\* what a direct caller passes, and what urlopen returns
TextPage(body) == [t |-> "str", v |-> body]
FilePage(body) == [t |-> "file", v |-> body]

-----------------------------------------------------------------------------
(* Response parsing *)

\* x[k]
Index(x, k) ==
    IF x.t # "dict" THEN Raise("TypeError")
    ELSE IF k \notin DOMAIN x.v THEN Raise("KeyError")
    ELSE Return(x.v[k])

\* x.get(k, default)
Get(x, k, default) ==
    IF x.t # "dict" THEN Raise("AttributeError")
    ELSE Return(IF k \in DOMAIN x.v THEN x.v[k] ELSE default)

\* parse_place reading the geometry with .get, so that a missing field gives None
ParsePlaceLenient(place) ==
    LET location == Get(place, "formatted_address", PyNone)
        geometry == Get(place, "geometry", PDict(EmptyMap))
        loc == Get(geometry.value, "location", PDict(EmptyMap))
        latitude == Get(loc.value, "lat", PyNone)
        longitude == Get(loc.value, "lng", PyNone)
    IN  Return(PTuple(<<location.value, PTuple(<<latitude.value, longitude.value>>)>>))

\* parse_place
ParsePlace(place) ==
    LET location == Get(place, "formatted_address", PyNone)
        geometry == Index(place, "geometry")
    IN  IF Raised(location) THEN location
        ELSE IF Raised(geometry) THEN geometry
        ELSE LET loc == Index(geometry.value, "location")
             IN  IF Raised(loc) THEN loc
                 ELSE LET latitude == Index(loc.value, "lat")
                          longitude == Index(loc.value, "lng")
                      IN  IF Raised(latitude) THEN latitude
                          ELSE IF Raised(longitude) THEN longitude
                          ELSE Return(PTuple(<<location.value,
                                               PTuple(<<latitude.value, longitude.value>>)>>))

\* parse_json lines 188-191 returning the last place for exactly_one
ParsePlacesLast(places, exactly_one) ==
    IF exactly_one THEN ParsePlace(places.v[Len(places.v)])
    ELSE LET parsed == [i \in DOMAIN places.v |-> ParsePlace(places.v[i])]
             failed == {i \in DOMAIN parsed : Raised(parsed[i])}
         IN  IF failed # {}
             THEN parsed[CHOOSE i \in failed : \A j \in failed : i <= j]
             ELSE Return(PList([i \in DOMAIN parsed |-> parsed[i].value]))

\* parse_json lines 188-191: the first place, or every place in order
ParsePlaces(places, exactly_one) ==
    IF exactly_one THEN ParsePlace(places.v[1])
    ELSE LET parsed == [i \in DOMAIN places.v |-> ParsePlace(places.v[i])]
             failed == {i \in DOMAIN parsed : Raised(parsed[i])}
         IN  IF failed # {}
             THEN parsed[CHOOSE i \in failed : \A j \in failed : i <= j]
             ELSE Return(PList([i \in DOMAIN parsed |-> parsed[i].value]))

\* _check_status with no final else: an unlisted status passes
CheckStatusNoElse(status) ==
    IF Eq(status, S("ZERO_RESULTS")) THEN Raise("GQueryError")
    ELSE IF Eq(status, S("OVER_QUERY_LIMIT")) THEN Raise("GTooManyQueriesError")
    ELSE IF Eq(status, S("REQUEST_DENIED")) THEN Raise("GQueryError")
    ELSE IF Eq(status, S("INVALID_REQUEST")) THEN Raise("GQueryError")
    ELSE Return(PyNone)

\* _check_status
CheckStatus(status) ==
    IF Eq(status, S("ZERO_RESULTS")) THEN Raise("GQueryError")
    ELSE IF Eq(status, S("OVER_QUERY_LIMIT")) THEN Raise("GTooManyQueriesError")
    ELSE IF Eq(status, S("REQUEST_DENIED")) THEN Raise("GQueryError")
    ELSE IF Eq(status, S("INVALID_REQUEST")) THEN Raise("GQueryError")
    ELSE Raise("GeocoderResultError")

\* the class statements with GTooManyQueriesError derived from GQueryError
BasesNested ==
    [c \in {"GQueryError", "GTooManyQueriesError"} |->
        IF c = "GTooManyQueriesError" THEN "GQueryError" ELSE "GeocoderResultError"]

\* the class statements: each error class and its base
Bases ==
    [c \in {"GQueryError", "GTooManyQueriesError"} |-> "GeocoderResultError"]

RECURSIVE IsSubclass(_, _)
IsSubclass(c, d) ==
    \/ c = d
    \/ c \in DOMAIN Bases /\ IsSubclass(Bases[c], d)

\* `except handler_class:` catches the raised error
Catches(handler_class, result) == Raised(result) /\ IsSubclass(result.value, handler_class)

\* self.doc after line 174, cleared when the text does not decode
DocAfterLoadsCleared(old, loaded) ==
    IF Raised(loaded) THEN EmptyDoc ELSE loaded.value

\* self.doc after line 174: assigned only when json.loads returned
DocAfterLoads(old, loaded) ==
    IF Raised(loaded) THEN old ELSE loaded.value

-----------------------------------------------------------------------------
(* Inputs *)

Queries == {PStr(<<"AT", "&", "T", " ", "Park">>)}
BoundsArgs == {PyNone, PStr(<<"34.17", ",", "-118.60", "|", "34.23", ",", "-118.50">>)}
Regions == {PyNone, S("uk")}
Languages == {PyNone, PStr(<<>>), S("en")}
Sensors == {PBool(FALSE), PBool(TRUE)}

\* one coordinate in each shape reverse documents: Point, pair, "lat,lng" text
Points ==
    {PPoint(PFloat("40.714224"), PFloat("-73.961452")),
     PTuple(<<PFloat("40.714224"), PFloat("-73.961452")>>),
     PList(<<S("40.714224"), S("-73.961452")>>),
     PStr(<<"40.714224", ",", "-73.961452">>)}

NoArgs ==
    [query |-> PyNone, point |-> PyNone, bounds |-> PyNone, region |-> PyNone,
     language |-> PyNone, sensor |-> PBool(FALSE)]

GeocodeArgs ==
    [query : Queries, point : {PyNone}, bounds : BoundsArgs, region : Regions,
     language : Languages, sensor : Sensors]

ReverseArgs ==
    [query : {PyNone}, point : Points, bounds : {PyNone}, region : {PyNone},
     language : Languages, sensor : Sensors]

\* places as the service writes them, and places with a field left out
Location(lat, lng) == JObj(<< <<"lat", JNum(lat)>>, <<"lng", JNum(lng)>> >>)
Geometry(location) == JObj(<< <<"location", location>> >>)
Place(address, geometry) ==
    JObj(<< <<"formatted_address", JStr(address)>>, <<"geometry", geometry>> >>)

GoodPlaces ==
    {Place("1600 Amphitheatre Parkway", Geometry(Location(37, -122))),
     Place("285 Bedford Ave", Geometry(Location(40, -74)))}

NoAddressPlace == JObj(<< <<"geometry", Geometry(Location(51, 0))>> >>)

BadPlaces ==
    {JObj(<< <<"formatted_address", JStr("nowhere")>> >>),
     Place("nowhere", JObj(<<>>)),
     Place("nowhere", Geometry(JObj(<< <<"lng", JNum(-74)>> >>))),
     Place("nowhere", Geometry(JObj(<< <<"lat", JNum(40)>> >>)))}

Places == GoodPlaces \cup {NoAddressPlace} \cup BadPlaces

PlaceLists == UNION {[1..n -> Places] : n \in 1..MaxResults}

Statuses ==
    {"OK", "ZERO_RESULTS", "OVER_QUERY_LIMIT", "REQUEST_DENIED", "INVALID_REQUEST",
     "UNKNOWN_ERROR"}

\* response objects: with places, and without (no `results`, null, or [])
FullBodies ==
    {JObj(<< <<"status", JStr("OK")>>, <<"results", JArr(ps)>> >>) : ps \in PlaceLists}

EmptyBodies ==
    {JObj(<< <<"status", JStr(st)>>, <<"results", JArr(<<>>)>> >>) : st \in Statuses}
    \cup {JObj(<< <<"status", JStr(st)>>, <<"results", JNull>> >>) : st \in Statuses}
    \cup {JObj(<< <<"status", JStr(st)>> >>) : st \in Statuses}
    \cup {JObj(<<>>), JObj(<< <<"results", JArr(<<>>)>> >>)}

\* every body of the parser's specification: also text that is no JSON, and a JSON array
AllBodies == FullBodies \cup EmptyBodies \cup {JInvalid, JArr(<<>>)}

\* the canned bodies of a stub transport
StubBodies ==
    {JInvalid,
     JArr(<<>>),
     JObj(<< <<"status", JStr("ZERO_RESULTS")>>, <<"results", JArr(<<>>)>> >>),
     JObj(<< <<"status", JStr("OVER_QUERY_LIMIT")>>, <<"results", JArr(<<>>)>> >>),
     JObj(<< <<"status", JStr("OK")>>,
             <<"results", JArr(<<Place("1600 Amphitheatre Parkway",
                                       Geometry(Location(37, -122)))>>)>> >>),
     JObj(<< <<"status", JStr("OK")>>,
             <<"results", JArr(<<Place("285 Bedford Ave", Geometry(Location(40, -74))),
                                 Place("Grand St", Geometry(Location(41, -73)))>>)>> >>)}

-----------------------------------------------------------------------------
(* State *)

Self ==
    [domain |-> domain, protocol |-> protocol, premier |-> premier,
     client_id |-> client_id, secret_key |-> secret_key]

IdleCall ==
    [pc |-> "idle", op |-> "none", args |-> NoArgs, params |-> EmptyMap, url |-> PyNone,
     page |-> PyNone, exactly_one |-> FALSE, result |-> Pending]

\* a thread may begin a call when it is in none
Free(t) == ctor.state = "ok" /\ calls[t].pc \in {"idle", "done"}

\* the response bodies the transport, or a direct caller of parse_json, can hand over
Bodies == IF transport = "stub" THEN StubBodies ELSE AllBodies

\* the object right after GoogleV3(**a) returned, in the environment `env`
Constructed(a, env) ==
    /\ ~Raised(New(a))
    /\ ctor = [state |-> "ok", args |-> a]
    /\ domain = New(a).value.domain
    /\ protocol = New(a).value.protocol
    /\ doc = New(a).value.doc
    /\ premier = New(a).value.premier
    /\ client_id = New(a).value.client_id
    /\ secret_key = New(a).value.secret_key
    /\ transport = env
    /\ calls = [t \in Threads |-> IdleCall]

\* before the constructor ran
Init ==
    /\ ctor = [state |-> "new", args |-> DefaultArgs]
    /\ domain = Unset
    /\ protocol = Unset
    /\ doc = Unset
    /\ premier = FALSE
    /\ client_id = Unset
    /\ secret_key = Unset
    /\ transport = "stub"
    /\ calls = [t \in Threads |-> IdleCall]

\* a default client handed every body of the parser's domain
InitParse == Constructed(DefaultArgs, "any")

\* a default client shared by the threads, behind the stub transport
InitConc == Constructed(DefaultArgs, "stub")

-----------------------------------------------------------------------------
(* Actions *)

\* GoogleV3(domain, protocol, client_id, secret_key)
Construct ==
    /\ ctor.state = "new"
    /\ \E a \in CtorArgs :
         LET r == New(a)
         IN  IF Raised(r)
             THEN /\ ctor' = [state |-> "raised", args |-> a]
                  /\ UNCHANGED <<domain, protocol, doc, premier, client_id, secret_key>>
             ELSE /\ ctor' = [state |-> "ok", args |-> a]
                  /\ domain' = r.value.domain
                  /\ protocol' = r.value.protocol
                  /\ doc' = r.value.doc
                  /\ premier' = r.value.premier
                  /\ client_id' = r.value.client_id
                  /\ secret_key' = r.value.secret_key
    /\ UNCHANGED <<transport, calls>>

\* geocode, lines 115-126: the parameter map is built.  The base class's geocode
\* (line 115) is taken to return, and its format_string to be the default '%s'.
Geocode(t) ==
    /\ Free(t)
    /\ \E a \in GeocodeArgs, exactly_one \in BOOLEAN :
         calls' = [calls EXCEPT ![t] =
                     [IdleCall EXCEPT !.pc = "built", !.op = "geocode", !.args = a,
                                      !.params = GeocodeParams(a),
                                      !.exactly_one = exactly_one]]
    /\ UNCHANGED <<ctor, domain, protocol, doc, premier, client_id, secret_key, transport>>

\* reverse, lines 155-160: the point is coerced and the parameter map built
Reverse(t) ==
    /\ Free(t)
    /\ \E a \in ReverseArgs, exactly_one \in BOOLEAN :
         LET p == ReverseParams(a)
         IN  calls' = [calls EXCEPT ![t] =
                         IF Raised(p)
                         THEN [IdleCall EXCEPT !.pc = "done", !.op = "reverse", !.args = a,
                                               !.exactly_one = exactly_one, !.result = p]
                         ELSE [IdleCall EXCEPT !.pc = "built", !.op = "reverse", !.args = a,
                                               !.params = p.value,
                                               !.exactly_one = exactly_one]]
    /\ UNCHANGED <<ctor, domain, protocol, doc, premier, client_id, secret_key, transport>>

\* geocode lines 128-131, reverse lines 162-165: the URL, plain or signed
BuildUrl(t) ==
    /\ calls[t].pc = "built"
    /\ LET u == BuildUrlFor(Self, calls[t].params)
       IN  calls' = [calls EXCEPT ![t] =
                       IF Raised(u)
                       THEN [@ EXCEPT !.pc = "done", !.result = u]
                       ELSE [@ EXCEPT !.pc = "fetch", !.params = u.value.params,
                                      !.url = u.value.url]]
    /\ UNCHANGED <<ctor, domain, protocol, doc, premier, client_id, secret_key, transport>>

\* parse_json lines 172-174 for thread t: the page is decoded and self.doc assigned.
\* The locals of geocode and reverse are read no more and are dropped.
Load(t, op, page, exactly_one) ==
    LET loaded == PageLoads(page)
    IN  /\ doc' = DocAfterLoads(doc, loaded)
        /\ calls' = [calls EXCEPT ![t] =
                       IF Raised(loaded)
                       THEN [IdleCall EXCEPT !.pc = "done", !.op = op, !.page = page,
                                             !.exactly_one = exactly_one,
                                             !.result = loaded]
                       ELSE [IdleCall EXCEPT !.pc = "places", !.op = op, !.page = page,
                                             !.exactly_one = exactly_one]]

\* geocode_url: the transport fails, or returns a page that parse_json starts on
GeocodeUrl(t) ==
    /\ calls[t].pc = "fetch"
    /\ \/ /\ calls' = [calls EXCEPT ![t] =
                         [IdleCall EXCEPT !.pc = "done", !.op = calls[t].op,
                                          !.exactly_one = calls[t].exactly_one,
                                          !.result = Raise("URLError")]]
          /\ doc' = doc
       \/ \E body \in Bodies :
             Load(t, calls[t].op, FilePage(body), calls[t].exactly_one)
    /\ UNCHANGED <<ctor, domain, protocol, premier, client_id, secret_key, transport>>

\* parse_json called by the client's user with the text of a response
ParseJson(t) ==
    /\ Free(t)
    /\ \E body \in Bodies, exactly_one \in BOOLEAN :
         Load(t, "parse_json", TextPage(body), exactly_one)
    /\ UNCHANGED <<ctor, domain, protocol, premier, client_id, secret_key, transport>>

\* parse_json lines 175-191: self.doc is read for `results`; places are parsed
ReadPlaces(t) ==
    /\ calls[t].pc = "places"
    /\ LET places == Get(doc, "results", PList(<<>>))
       IN  calls' = [calls EXCEPT ![t] =
                       IF Raised(places)
                       THEN [@ EXCEPT !.pc = "done", !.result = places]
                       ELSE IF ~Truthy(places.value)
                       THEN [@ EXCEPT !.pc = "status"]
                       ELSE [@ EXCEPT !.pc = "done",
                                      !.result = ParsePlaces(places.value,
                                                            calls[t].exactly_one)]]
    /\ UNCHANGED <<ctor, domain, protocol, doc, premier, client_id, secret_key, transport>>

\* parse_json lines 178-179: self.doc is read for `status`, which is checked
ReadStatus(t) ==
    /\ calls[t].pc = "status"
    /\ LET status == Get(doc, "status", PyNone)
       IN  calls' = [calls EXCEPT ![t] =
                       [@ EXCEPT !.pc = "done",
                                 !.result = IF Raised(status) THEN status
                                            ELSE CheckStatus(status.value)]]
    /\ UNCHANGED <<ctor, domain, protocol, doc, premier, client_id, secret_key, transport>>

-----------------------------------------------------------------------------
(* Specifications *)

\* one caller: the object is constructed, then used call after call
Next ==
    \/ Construct
    \/ Geocode(MainThread)
    \/ Reverse(MainThread)
    \/ BuildUrl(MainThread)
    \/ GeocodeUrl(MainThread)
    \/ ParseJson(MainThread)
    \/ ReadPlaces(MainThread)
    \/ ReadStatus(MainThread)

Spec == Init /\ [][Next]_vars

\* one caller of parse_json, over every body
NextParse ==
    \/ ParseJson(MainThread)
    \/ ReadPlaces(MainThread)
    \/ ReadStatus(MainThread)

SpecParse == InitParse /\ [][NextParse]_vars

\* threads that call parse_json on one client, interleaved at the accesses to self.doc
NextConc ==
    \E t \in Threads :
        \/ ParseJson(t)
        \/ ReadPlaces(t)
        \/ ReadStatus(t)

SpecConc == InitConc /\ [][NextConc]_vars

-----------------------------------------------------------------------------
(* Reading a response body and a URL back, for the properties below *)

HasKey(j, k) == j.t = "obj" /\ \E i \in DOMAIN j.v : j.v[i][1] = k
Field(j, k) == LastMember(j.v, k)

\* the places a body carries: the items of its `results` array, if it has one
BodyPlaces(body) ==
    IF HasKey(body, "results") /\ Field(body, "results").t = "arr"
    THEN Field(body, "results").v
    ELSE <<>>

BodyStatus(body) ==
    IF HasKey(body, "status") THEN Field(body, "status").v ELSE "(absent)"

HasCoordinates(place) ==
    /\ HasKey(place, "geometry")
    /\ HasKey(Field(place, "geometry"), "location")
    /\ HasKey(Field(Field(place, "geometry"), "location"), "lat")
    /\ HasKey(Field(Field(place, "geometry"), "location"), "lng")

WellFormed(place) == HasKey(place, "formatted_address") /\ HasCoordinates(place)

\* (formatted_address, (lat, lng)) of a well-formed place
TupleOf(place) ==
    PTuple(<<S(Field(place, "formatted_address").v),
             PTuple(<<PNum(Field(Field(Field(place, "geometry"), "location"), "lat").v),
                      PNum(Field(Field(Field(place, "geometry"), "location"), "lng").v)>>)>>)

\* a call that got as far as parse_json, and is over
Parsed(c) == c.pc = "done" /\ ~IsNone(c.page)

\* a finished parse of a JSON object without places
ParsedEmpty(c) == Parsed(c) /\ c.page.v.t = "obj" /\ BodyPlaces(c.page.v) = <<>>

\* a finished parse of a JSON object with places
ParsedPlaces(c) == Parsed(c) /\ c.page.v.t = "obj" /\ BodyPlaces(c.page.v) # <<>>

RECURSIVE SplitOn(_, _)
SplitOn(tokens, sep) ==
    IF \A i \in DOMAIN tokens : tokens[i] # sep THEN <<tokens>>
    ELSE LET at == CHOOSE i \in DOMAIN tokens :
                      tokens[i] = sep /\ \A j \in 1..(i - 1) : tokens[j] # sep
         IN  <<SubSeq(tokens, 1, at - 1)>>
                 \o SplitOn(SubSeq(tokens, at + 1, Len(tokens)), sep)

UnquoteToken(tok) ==
    CASE tok = "+" -> " "
      [] tok = "%2C" -> ","
      [] tok = "%26" -> "&"
      [] tok = "%3D" -> "="
      [] tok = "%7C" -> "|"
      [] tok = "%2F" -> "/"
      [] OTHER -> tok

\* the query string "k=v&k=v" as the sequence of its <<key, value>> pairs, unquoted
QueryPairs(query) ==
    LET parts == SplitOn(query, "&")
    IN  [i \in DOMAIN parts |->
            <<parts[i][1],
              parts[i][2],
              PStr([j \in 1..(Len(parts[i]) - 2) |-> UnquoteToken(parts[i][j + 2])])>>]

\* the query of a plain URL: what follows the path
PlainQuery(url) ==
    LET at == CHOOSE i \in DOMAIN url.v : url.v[i] = UrlPath
    IN  SubSeq(url.v, at + 1, Len(url.v))

\* the pairs are exactly the map: every key once, with the map's value
CarriesExactly(pairs, map) ==
    /\ \A i \in DOMAIN pairs : pairs[i][2] = "="
    /\ \A i, j \in DOMAIN pairs : pairs[i][1] = pairs[j][1] => i = j
    /\ {pairs[i][1] : i \in DOMAIN pairs} = DOMAIN map
    /\ \A i \in DOMAIN pairs : pairs[i][3] = map[pairs[i][1]]

Main == calls[MainThread]

-----------------------------------------------------------------------------
(* C1 *)

MappedError(status) ==
    CASE status = "ZERO_RESULTS" -> "GQueryError"
      [] status = "OVER_QUERY_LIMIT" -> "GTooManyQueriesError"
      [] status = "REQUEST_DENIED" -> "GQueryError"
      [] status = "INVALID_REQUEST" -> "GQueryError"
      [] OTHER -> "GeocoderResultError"

\* C1: a response object whose `results` is empty, null or absent never makes
\* parse_json return: the call ends in the error mapped from `status`, and in
\* GeocoderResultError for any other status, OK and a missing status included.
C1_EmptyResultsRaiseMappedError ==
    ParsedEmpty(Main) => Raises(Main.result, MappedError(BodyStatus(Main.page.v)))

C1_Witness ==
    /\ ParsedEmpty(Main)
    /\ BodyStatus(Main.page.v) = "OK"
    /\ Raises(Main.result, "GeocoderResultError")

-----------------------------------------------------------------------------
(* C2 *)

\* C2: for a response whose places are all well-formed, parse_json returns the
\* tuple of the first place when exactly_one is true, and otherwise the list of the
\* tuples of all places, in the order of `results` (a list also for one place).
C2_FirstOrAllInOrder ==
    LET places == BodyPlaces(Main.page.v)
    IN  (ParsedPlaces(Main) /\ \A i \in DOMAIN places : WellFormed(places[i]))
        => IF Main.exactly_one
           THEN Returns(Main.result, TupleOf(places[1]))
           ELSE Returns(Main.result, PList([i \in DOMAIN places |-> TupleOf(places[i])]))

C2_Witness ==
    LET places == BodyPlaces(Main.page.v)
    IN  /\ ParsedPlaces(Main)
        /\ ~Main.exactly_one
        /\ Len(places) = 2
        /\ WellFormed(places[1]) /\ WellFormed(places[2])
        /\ places[1] # places[2]
        /\ Returned(Main.result)
        /\ Len(Main.result.value.v) = 2

-----------------------------------------------------------------------------
(* C3 *)

\* the coordinate of every element of Points, as "lat,lng"
ExpectedLatLng == PStr(<<"40.714224", ",", "-73.961452">>)

\* C3: reverse coerces a Point, a pair and the text "lat,lng" of one coordinate
\* alike: the coercion succeeds and the `latlng` parameter is "lat,lng".
C3_CoercionYieldsLatLng ==
    (Main.op = "reverse" /\ ~IsNone(Main.args.point))
    => /\ "latlng" \in DOMAIN Main.params
       /\ Eq(Main.params["latlng"], ExpectedLatLng)

-----------------------------------------------------------------------------
(* C4 *)

ValidProtocol(p) == p \in {S("http"), S("https")}

\* C4: the constructor raises exactly when one of client_id / secret_key is given
\* without the other or the protocol is neither http nor https, and then no field is
\* set; otherwise premier is on iff both credentials are stored, and when it is off
\* both are None.  (An argument is given when it is not None and not empty.)
C4_ConstructionAllOrNothing ==
    LET a == ctor.args
        partial == Truthy(a.client_id) # Truthy(a.secret_key)
    IN  /\ ctor.state = "raised" =>
              /\ partial \/ ~ValidProtocol(a.protocol)
              /\ IsNone(domain) /\ IsNone(protocol) /\ IsNone(doc)
              /\ IsNone(client_id) /\ IsNone(secret_key)
        /\ ctor.state = "ok" =>
              /\ ~partial /\ ValidProtocol(a.protocol)
              /\ protocol = a.protocol
              /\ premier <=> (~IsNone(client_id) /\ ~IsNone(secret_key))
              /\ premier <=> (Truthy(a.client_id) /\ Truthy(a.secret_key))
              /\ premier => client_id = a.client_id /\ secret_key = a.secret_key
              /\ ~premier => IsNone(client_id) /\ IsNone(secret_key)

C4_Witness ==
    /\ ctor.state = "raised"
    /\ ValidProtocol(ctor.args.protocol)
    /\ Truthy(ctor.args.secret_key)
    /\ ~Truthy(ctor.args.client_id)

-----------------------------------------------------------------------------
(* C5 *)

\* the URL is protocol://domain<path+query>&signature=<digest of that path+query>,
\* and the query is the call's parameters with client=<client_id>
SignedForm(url, params) ==
    LET u == url.v
        n == Len(u)
        d == Len(domain.v)
        part == SubSeq(u, 3 + d, n - 2)
    IN  /\ n >= d + 5
        /\ u[1] = protocol.v[1]
        /\ u[2] = "://"
        /\ SubSeq(u, 3, 2 + d) = domain.v
        /\ part[1] = UrlPath
        /\ CarriesExactly(QueryPairs(Tail(part)), params)
        /\ "client" \in DOMAIN params /\ params["client"] = client_id
        /\ u[n - 1] = "&signature="
        /\ u[n] = UrlsafeB64encode(
                      HmacSha1Digest(UrlsafeB64decode(secret_key).value, part))

\* the URL is http://domain<path+query>, with no client and no signature
PlainForm(url, params) ==
    LET u == url.v
        d == Len(domain.v)
    IN  /\ u[1] = "http"
        /\ u[2] = "://"
        /\ SubSeq(u, 3, 2 + d) = domain.v
        /\ u[3 + d] = UrlPath
        /\ \A i \in DOMAIN u : u[i] # "&signature="
        /\ "client" \notin {QueryPairs(PlainQuery(url))[i][1] :
                               i \in DOMAIN QueryPairs(PlainQuery(url))}

\* C5: the URL a geocode or reverse call is about to fetch is the signed URL when
\* the client is premier, and otherwise the plain URL, whose scheme is http whatever
\* protocol was configured.
C5_SignedIffPremier ==
    Main.pc = "fetch" =>
        IF premier THEN SignedForm(Main.url, Main.params)
        ELSE PlainForm(Main.url, Main.params)

C5_Witness ==
    /\ Main.pc = "fetch"
    /\ premier
    /\ protocol = S("https")
    /\ Main.op = "geocode"
    /\ Truthy(Main.args.bounds)

-----------------------------------------------------------------------------
(* C6 *)

\* the keys the call's arguments ask for
ExpectedKeys(c) ==
    IF c.op = "geocode"
    THEN {"address", "sensor"}
            \cup {k \in {"bounds", "region", "language"} : Truthy(c.args[k])}
    ELSE {"latlng", "sensor"} \cup {k \in {"language"} : Truthy(c.args[k])}

\* C6: the map geocode builds has the keys address and sensor plus bounds, region,
\* language for each such argument given, the map reverse builds has latlng and
\* sensor plus language if given; sensor is "true" or "false"; and the plain URL
\* carries exactly these parameters, each key once.  (An argument is given when it
\* is not None and not empty.)
C6_ParamsExactlyAsGiven ==
    /\ Main.pc = "built" =>
          /\ DOMAIN Main.params = ExpectedKeys(Main)
          /\ Main.params["sensor"] \in {S("true"), S("false")}
          /\ Main.params["sensor"] = IF Main.args.sensor.v THEN S("true") ELSE S("false")
    /\ (Main.pc = "fetch" /\ ~premier) =>
          /\ DOMAIN Main.params = ExpectedKeys(Main)
          /\ Main.params["sensor"] \in {S("true"), S("false")}
          /\ CarriesExactly(QueryPairs(PlainQuery(Main.url)), Main.params)

C6_Witness ==
    /\ Main.pc = "fetch"
    /\ ~premier
    /\ Main.op = "geocode"
    /\ Truthy(Main.args.bounds)
    /\ ~Truthy(Main.args.region)
    /\ Main.args.sensor.v
    /\ "region" \notin DOMAIN Main.params

-----------------------------------------------------------------------------
(* C7 *)

QueryStatuses == {"ZERO_RESULTS", "REQUEST_DENIED", "INVALID_REQUEST"}

\* C7 as claimed: a handler for GQueryError also catches the error raised for
\* OVER_QUERY_LIMIT, and a handler for GTooManyQueriesError catches that error only.
C7_TooManyIsAQueryError ==
    ParsedEmpty(Main) =>
        LET status == BodyStatus(Main.page.v)
        IN  /\ status = "OVER_QUERY_LIMIT" =>
                  /\ Catches("GQueryError", Main.result)
                  /\ Catches("GTooManyQueriesError", Main.result)
            /\ status \in QueryStatuses =>
                  /\ Catches("GQueryError", Main.result)
                  /\ ~Catches("GTooManyQueriesError", Main.result)

\* C7 as amended: GTooManyQueriesError and GQueryError are siblings under
\* GeocoderResultError.  A handler for GeocoderResultError catches every error
\* mapped from a status; a handler for GQueryError catches exactly the errors for
\* ZERO_RESULTS, REQUEST_DENIED and INVALID_REQUEST, not the one for
\* OVER_QUERY_LIMIT; a handler for GTooManyQueriesError catches exactly that one.
C7_TooManyIsASibling ==
    ParsedEmpty(Main) =>
        LET status == BodyStatus(Main.page.v)
        IN  /\ Catches("GeocoderResultError", Main.result)
            /\ Catches("GQueryError", Main.result) <=> status \in QueryStatuses
            /\ Catches("GTooManyQueriesError", Main.result) <=> status = "OVER_QUERY_LIMIT"

C7_Witness ==
    /\ ParsedEmpty(Main)
    /\ BodyStatus(Main.page.v) = "OVER_QUERY_LIMIT"
    /\ Catches("GTooManyQueriesError", Main.result)
    /\ ~Catches("GQueryError", Main.result)

-----------------------------------------------------------------------------
(* C8 *)

HasNumbers(tuple) == tuple.v[2].v[1].t = "num" /\ tuple.v[2].v[2].t = "num"

\* C8 as claimed: with places in the response, a place without geometry, location,
\* lat or lng makes the parse fail, whatever the exactly-one flag.
C8_AnyBadPlaceFails ==
    LET places == BodyPlaces(Main.page.v)
    IN  (ParsedPlaces(Main) /\ \E i \in DOMAIN places : ~HasCoordinates(places[i]))
        => Raised(Main.result)

\* C8 as amended: the parser extracts the first place when exactly_one is true and
\* every place when it is false, and fails, with KeyError, exactly when a place it
\* extracts lacks geometry, location, lat or lng: with exactly_one true a place after
\* the first is not looked at.  Every result returned has both coordinates; a missing
\* formatted_address is no error.
C8_ExtractedBadPlaceFails ==
    LET places == BodyPlaces(Main.page.v)
        extracted == IF Main.exactly_one THEN {1} ELSE DOMAIN places
    IN  ParsedPlaces(Main) =>
           /\ Raised(Main.result) <=> \E i \in extracted : ~HasCoordinates(places[i])
           /\ Raised(Main.result) => Main.result.value = "KeyError"
           /\ (Returned(Main.result) /\ Main.exactly_one) => HasNumbers(Main.result.value)
           /\ (Returned(Main.result) /\ ~Main.exactly_one) =>
                 /\ Len(Main.result.value.v) = Len(places)
                 /\ \A i \in DOMAIN places : HasNumbers(Main.result.value.v[i])

C8_Witness ==
    LET places == BodyPlaces(Main.page.v)
    IN  /\ ParsedPlaces(Main)
        /\ Main.exactly_one
        /\ Len(places) = 2
        /\ HasCoordinates(places[1])
        /\ ~HasCoordinates(places[2])
        /\ Returned(Main.result)

-----------------------------------------------------------------------------
(* C9 *)

Decodes(page) == ~IsNone(page) /\ ~Raised(PageLoads(page))

\* what holds of self.doc between the steps of a single caller
C9_DocIsLastDecoded ==
    ctor.state = "ok" =>
        /\ Main.pc = "idle" => Eq(doc, EmptyDoc)
        /\ (Main.pc \in {"places", "status", "done"} /\ Decodes(Main.page))
              => Eq(doc, PageLoads(Main.page).value)

\* what a step may change
C9_Frame ==
    /\ ctor.state = "ok" => config' = config
    /\ ~Eq(doc', doc) =>
          \/ ctor.state = "new"
          \/ /\ Main'.pc = "places"
             /\ Decodes(Main'.page)
             /\ Eq(doc', PageLoads(Main'.page).value)
    /\ (Main'.pc = "done" /\ ~Decodes(Main'.page)) => Eq(doc', doc)

\* C9: self.doc is {} until a call has decoded a response, then the decoded JSON of
\* the latest call that decoded one, also when that call went on to raise; a call that
\* fails before or while decoding leaves it as it was; no call changes domain,
\* protocol, client_id, secret_key or premier.
C9_LastDocument == [] C9_DocIsLastDecoded /\ [][C9_Frame]_vars

C9_Witness ==
    /\ Main.pc = "done"
    /\ Main.op = "geocode"
    /\ ~IsNone(Main.page)
    /\ Raises(Main.result, "ValueError")
    /\ ~Eq(doc, EmptyDoc)

-----------------------------------------------------------------------------
(* C10 *)

\* what parse_json makes of a page and a flag when nothing else touches self.doc
ParseJsonAlone(page, exactly_one) ==
    LET loaded == PageLoads(page)
        places == Get(loaded.value, "results", PList(<<>>))
        status == Get(loaded.value, "status", PyNone)
    IN  IF Raised(loaded) THEN loaded
        ELSE IF Raised(places) THEN places
        ELSE IF Truthy(places.value) THEN ParsePlaces(places.value, exactly_one)
        ELSE CheckStatus(status.value)

\* C10: however the calls of several threads on one client interleave, what a call
\* returns or raises is fixed by its own page and its own exactly-one flag.
C10_OutcomeIsOwn ==
    \A t \in Threads :
        calls[t].pc = "done" =>
            SameOutcome(calls[t].result,
                        ParseJsonAlone(calls[t].page, calls[t].exactly_one))

====
